---- MODULE Spec2Model ----
(***************************************************************************)
(* Model of server/generate_brd.py: the BRD document assembler.            *)
(*                                                                         *)
(* The document is a sequence of blocks (headings, paragraphs, tables,     *)
(* pictures).  HTML is a sequence of tokens: a tag is one token, "\n" and  *)
(* " " are whitespace, any other token is a run of text without "<", ">"   *)
(* or whitespace.  The regular expressions of the source are modelled on   *)
(* these token sequences ("." matches every token but "\n").               *)
(***************************************************************************)
EXTENDS Integers, Sequences, FiniteSets, TLC

\* ------------------------------------------------------------------ bounds
MaxOutputs == 2
MaxFields == 2
MaxEnvChanges == 1
MaxHtmlLen == 4

\* ------------------------------------------------------- program constants
MaxTagLevel == 6
HeadingOffset == 2
MaxHeadingLevel == 9

FallbackSentence == "An error occurred while generating content."
TablePlaceholder == "Table data would be included here based on requirements."
ImagePlaceholder == "Visual representation would be included here based on requirements."
CsvErrorPrefix == "Error creating table from CSV: "

\* ------------------------------------------------------------ the document
Block(kind, level, style, text, rows) ==
    [kind |-> kind, level |-> level, style |-> style, text |-> text, rows |-> rows]

add_heading(text, level) == Block("heading", level, "Heading", text, <<>>)

add_paragraph(text, style) == Block("para", -1, style, text, <<>>)

add_table(rows) == Block("table", -1, "Table Grid", "", rows)

add_picture == Block("picture", -1, "Normal", "", <<>>)

\* ------------------------------------------------------------- HTML tokens
OpenH(k) == "<h" \o ToString(k) \o ">"

CloseH(k) == "</h" \o ToString(k) \o ">"

PTags == {"<p>", "</p>"}

Tags == PTags \cup {"<ul>", "</ul>", "<ol>", "</ol>", "<li>", "</li>"}
          \cup {OpenH(k) : k \in 1..MaxTagLevel} \cup {CloseH(k) : k \in 1..MaxTagLevel}

IsWs(t) == t \in {"\n", " "}

RECURSIVE Concat(_)
Concat(s) == IF s = <<>> THEN "" ELSE Head(s) \o Concat(Tail(s))

\* str.strip(): whitespace removed at both ends
RECURSIVE LStrip(_)
LStrip(s) == IF s # <<>> /\ IsWs(Head(s)) THEN LStrip(Tail(s)) ELSE s

RECURSIVE RStrip(_)
RStrip(s) ==
    IF s # <<>> /\ IsWs(s[Len(s)]) THEN RStrip(SubSeq(s, 1, Len(s) - 1)) ELSE s

Strip(s) == RStrip(LStrip(s))

\* re.split(r'<[/]?p>', html)
RECURSIVE SplitP(_)
SplitP(h) ==
    IF \A j \in 1..Len(h) : h[j] \notin PTags
    THEN <<h>>
    ELSE LET j == CHOOSE j \in 1..Len(h) :
                      h[j] \in PTags /\ \A m \in 1..(j - 1) : h[m] \notin PTags
         IN  <<SubSeq(h, 1, j - 1)>> \o SplitP(SubSeq(h, j + 1, Len(h)))

\* the first position >= from holding tok, 0 when there is none
FirstAt(p, tok, from) ==
    IF \E j \in from..Len(p) : p[j] = tok
    THEN CHOOSE j \in from..Len(p) : p[j] = tok /\ \A m \in from..(j - 1) : p[m] # tok
    ELSE 0

\* "(.*?)close" tried right after an opening tag at s: the end of the lazy
\* match, 0 when a newline comes before the first closing tag (or none comes)
MatchEnd(p, s, close) ==
    LET e == FirstAt(p, close, s + 1)
    IN  IF e # 0 /\ \A j \in (s + 1)..(e - 1) : p[j] # "\n" THEN e ELSE 0

\* re.search('open(.*?)close', p) from position from: <<start, end>> of the
\* leftmost match, <<0, 0>> when there is none
Search(p, open, close, from) ==
    IF \E s \in from..Len(p) : p[s] = open /\ MatchEnd(p, s, close) # 0
    THEN LET s == CHOOSE s \in from..Len(p) :
                      /\ p[s] = open /\ MatchEnd(p, s, close) # 0
                      /\ \A m \in from..(s - 1) :
                             ~(p[m] = open /\ MatchEnd(p, m, close) # 0)
         IN  <<s, MatchEnd(p, s, close)>>
    ELSE <<0, 0>>

Group(p, m) == SubSeq(p, m[1] + 1, m[2] - 1)

\* re.findall(r'<li>(.*?)</li>', p): the groups of the non-overlapping matches
RECURSIVE FindAllLi(_, _)
FindAllLi(p, from) ==
    LET m == Search(p, "<li>", "</li>", from)
    IN  IF m[1] = 0 THEN <<>> ELSE <<Group(p, m)>> \o FindAllLi(p, m[2] + 1)

\* re.sub(r'<.*?>', '', p)
StripTags(p) == SelectSeq(p, LAMBDA t : t \notin Tags)

\* the heading levels i of range(1, 7) whose pattern matches the block
HeadingLevels(p) ==
    {k \in 1..MaxTagLevel : Search(p, OpenH(k), CloseH(k), 1)[1] # 0}

Min(S) == CHOOSE x \in S : \A y \in S : x <= y

HeadingLevel(tag) == tag + HeadingOffset

BulletsOf(items) ==
    [j \in 1..Len(items) |-> add_paragraph(Concat(Strip(items[j])), "List Bullet")]

\* ConvertBlock with the list test tried before the heading patterns
ConvertBlock_ListFirst(p, i0) ==
    IF Strip(p) = <<>>
    THEN [blocks |-> <<>>, i |-> i0]
    ELSE IF \E j \in 1..Len(p) : p[j] \in {"<ul>", "<ol>"}
    THEN [blocks |-> BulletsOf(FindAllLi(p, 1)), i |-> MaxTagLevel]
    ELSE IF HeadingLevels(p) # {}
    THEN LET k == Min(HeadingLevels(p))
         IN  [blocks |-> <<add_heading(Concat(Group(p, Search(p, OpenH(k), CloseH(k), 1))),
                                       HeadingLevel(k))>>,
              i |-> k]
    ELSE LET clean_text == StripTags(p)
         IN  [blocks |-> IF Strip(clean_text) # <<>>
                         THEN <<add_paragraph(Concat(Strip(clean_text)), "Normal")>>
                         ELSE <<>>,
              i |-> MaxTagLevel]

\* one pass of the body of "for p in paragraphs": the blocks appended and the
\* value the inner "for i in range(1, 7)" leaves in i (i0 when it did not run)
ConvertBlock(p, i0) ==
    IF Strip(p) = <<>>
    THEN [blocks |-> <<>>, i |-> i0]
    ELSE IF HeadingLevels(p) # {}
    THEN LET k == Min(HeadingLevels(p))
         IN  [blocks |-> <<add_heading(Concat(Group(p, Search(p, OpenH(k), CloseH(k), 1))),
                                       HeadingLevel(k))>>,
              i |-> k]
    ELSE IF \E j \in 1..Len(p) : p[j] \in {"<ul>", "<ol>"}
    THEN [blocks |-> BulletsOf(FindAllLi(p, 1)), i |-> MaxTagLevel]
    ELSE LET clean_text == StripTags(p)
         IN  [blocks |-> IF Strip(clean_text) # <<>>
                         THEN <<add_paragraph(Concat(Strip(clean_text)), "Normal")>>
                         ELSE <<>>,
              i |-> MaxTagLevel]

\* the whole "for p in paragraphs" loop
RECURSIVE ConvertBlocks(_, _)
ConvertBlocks(ps, i0) ==
    IF ps = <<>>
    THEN [blocks |-> <<>>, i |-> i0]
    ELSE LET first == ConvertBlock(Head(ps), i0)
             rest == ConvertBlocks(Tail(ps), first.i)
         IN  [blocks |-> first.blocks \o rest.blocks, i |-> rest.i]

\* ---------------------------------------------------------------- markdown
MdHeading(level, text) == [t |-> "h", level |-> level, text |-> text, items |-> <<>>]

MdPara(text) == [t |-> "p", level |-> 0, text |-> text, items |-> <<>>]

MdList(items) == [t |-> "ul", level |-> 0, text |-> "", items |-> items]

RECURSIVE MdItems(_)
MdItems(items) ==
    IF items = <<>> THEN <<>>
    ELSE <<"<li>", Head(items), "</li>", "\n">> \o MdItems(Tail(items))

MdElement(e) ==
    IF e.t = "h" THEN <<OpenH(e.level), e.text, CloseH(e.level)>>
    ELSE IF e.t = "p" THEN <<"<p>", e.text, "</p>">>
    ELSE <<"<ul>", "\n">> \o MdItems(e.items) \o <<"</ul>">>

\* markdown.markdown(ai_content): the block elements, joined by newlines
RECURSIVE Markdown(_)
Markdown(md) ==
    IF md = <<>> THEN <<>>
    ELSE IF Len(md) = 1 THEN MdElement(md[1])
    ELSE MdElement(md[1]) \o <<"\n">> \o Markdown(Tail(md))

\* ------------------------------------------------------------------ inputs
AttachmentKeys == {"csv", "image", "doc"}

FieldDefs == {[key |-> "k1", label |-> "First"], [key |-> "k2", label |-> "Second"]}

StrValue(s) == [kind |-> "str", items |-> <<s>>, n |-> 0]

ListValue(items) == [kind |-> "list", items |-> items, n |-> 0]

IntValue(n) == [kind |-> "int", items |-> <<>>, n |-> n]

FormValues == {StrValue("x"), ListValue(<<"a", "b">>), IntValue(7)}

Templates == UNION {[1..m -> FieldDefs] : m \in 0..MaxFields}

\* the entries of outputs: a name and the list of requested kinds, in any order
Entries ==
    { [name |-> "A", types |-> <<"content">>],
      [name |-> "B", types |-> <<"table">>],
      [name |-> "A", types |-> <<"image", "table", "content">>],
      [name |-> "B", types |-> <<"content", "image">>],
      [name |-> "C", types |-> <<>>] }

OutputSeqs == UNION {[1..m -> Entries] : m \in 0..MaxOutputs}

\* the files on disk: an attachment that "files" does not name is never looked at
FileStates(files) ==
    { f \in [AttachmentKeys -> {"missing", "ok", "bad"}] :
          /\ \A k \in AttachmentKeys \ files : f[k] = "missing"
          /\ f["doc"] # "bad" }

Data(template, form, outs, files) ==
    [ template |-> [templateName |-> "T", overview |-> template],
      formData |-> form,
      businessUseCase |-> "use case",
      businessLogic |-> "logic",
      outputs |-> outs,
      files |-> files ]

NoData == Data(<<>>, <<>>, <<>>, {})

\* the markdown texts the generation endpoint answers with
AiContents ==
    { << MdHeading(3, "T"), MdPara("x"), MdList(<<"u", "v">>) >> }

\* what requests.post and response.json() do
Responses ==
    {[postRaises |-> TRUE, status |-> 0, jsonOk |-> FALSE, content |-> <<>>],
     [postRaises |-> FALSE, status |-> 500, jsonOk |-> TRUE, content |-> <<>>],
     [postRaises |-> FALSE, status |-> 200, jsonOk |-> FALSE, content |-> <<>>]}
    \cup {[postRaises |-> FALSE, status |-> 200, jsonOk |-> TRUE, content |-> c] :
              c \in AiContents}

NetworkFailure(r) == r.postRaises \/ r.status # 200 \/ ~r.jsonOk

HtmlTokens ==
    { "<p>", "</p>", "<h1>", "</h1>", "<h6>", "</h6>", "<ul>", "<ol>", "<li>", "</li>",
      "\n", "a" }

HtmlInputs == UNION {[1..m -> HtmlTokens] : m \in 0..MaxHtmlLen}

\* ------------------------------------------------------------------- state
VARIABLES
    argv_ok,      \* len(sys.argv) == 3
    dataFile,     \* the data file: "missing", "notjson", "badfield" or "ok"
    data,         \* what json.load and the three json.loads yield
    fs,           \* the attachments on disk: "missing", "ok" or "bad" (unreadable)
    pc,           \* the position of the script
    doc,          \* the document: the blocks appended so far
    it,           \* entries the enumerate iterator has yielded
    i,            \* the variable i of create_brd_document
    retval,       \* what create_brd_document returned
    fileWritten,  \* the output file exists
    exitCode,     \* the exit status, -1 while running
    saves,        \* calls of doc.save
    calls,        \* the output sections (1-based) the POST requests were made for
    aiFailed,     \* the sections whose request failed
    csvCalls,     \* the calls of create_table_from_csv
    secAt,        \* the position in doc of each output section's heading
    csvSeen,      \* per output section, what its test of the CSV attachment found
    failedAt,     \* where the run failed: "", "usage", "load" or "save"
    envChanges,   \* changes of the CSV file during the run
    html,         \* html_content
    paragraphs,   \* the blocks of html_content still to convert
    p,            \* the block converted last
    added         \* the blocks the last conversion appended

vars == << argv_ok, dataFile, data, fs, pc, doc, it, i, retval, fileWritten, exitCode,
           saves, calls, aiFailed, csvCalls, secAt, csvSeen, failedAt, envChanges,
           html, paragraphs, p, added >>

inputVars == << argv_ok, dataFile, data >>

htmlVars == << html, paragraphs, p, added >>

\* what the run did, recorded for the properties
logVars == << calls, aiFailed, csvCalls, secAt, csvSeen, failedAt >>

template == data.template

form_data == data.formData

outputs == data.outputs

files == data.files

\* the entry the loop over enumerate(outputs) is at
output == outputs[it]

InitCommon ==
    /\ doc = <<>>
    /\ it = 0
    /\ i = 0
    /\ retval = FALSE
    /\ fileWritten = FALSE
    /\ exitCode = -1
    /\ saves = 0
    /\ calls = <<>>
    /\ aiFailed = {}
    /\ csvCalls = <<>>
    /\ secAt = <<>>
    /\ csvSeen = <<>>
    /\ failedAt = ""
    /\ envChanges = 0
    /\ paragraphs = <<>>
    /\ p = <<>>
    /\ added = <<>>

\* runs that fail before the document is created
InitBadRun ==
    /\ argv_ok \in BOOLEAN
    /\ dataFile \in {"missing", "notjson", "badfield", "ok"}
    /\ ~(argv_ok /\ dataFile = "ok")
    /\ data = NoData
    /\ fs \in FileStates({})

Init ==
    /\ InitCommon
    /\ pc = "main"
    /\ html = <<>>
    /\ \/ InitBadRun
       \/ /\ argv_ok = TRUE
          /\ dataFile = "ok"
          /\ \E outs \in OutputSeqs, files0 \in {{}, {"csv", "image", "doc"}} :
                 data = Data(<<[key |-> "k1", label |-> "First"]>>,
                             [k \in {"k1"} |-> StrValue("x")], outs, files0)
          /\ fs \in {f \in FileStates(files) :
                        "image" \in files => (f["image"] = "ok" /\ f["doc"] = "ok")}

\* ----------------------------------------------------------------- helpers
\* os.path.exists(files[k]), guarded by "k in files"
Attached(k) == k \in files /\ fs[k] # "missing"

\* an exception nobody catches ends the interpreter with status 1
Raise(where) ==
    /\ pc' = "exited"
    /\ exitCode' = 1
    /\ failedAt' = where

RECURSIVE Join(_, _)
Join(items, sep) ==
    IF items = <<>> THEN ""
    ELSE IF Len(items) = 1 THEN items[1]
    ELSE items[1] \o sep \o Join(Tail(items), sep)

\* str(value)
Str(value) == IF value.kind = "int" THEN ToString(value.n) ELSE value.items[1]

\* lines 158-166: the text of the value cell of one field
CellText(form, key) ==
    IF key \in DOMAIN form
    THEN IF form[key].kind = "list" THEN Join(form[key].items, ", ") ELSE Str(form[key])
    ELSE ""

\* OverviewRows looping over the fields form data has a value for
OverviewRows_SkipMissing(tpl, form) ==
    <<<<"Field", "Value">>>> \o
    [j \in 1..Len(SelectSeq(tpl.overview, LAMBDA f : f.key \in DOMAIN form)) |->
        LET f == SelectSeq(tpl.overview, LAMBDA g : g.key \in DOMAIN form)[j]
        IN  <<f.label, CellText(form, f.key)>>]

\* the Overview table: the header row, then the loop over template['overview']
OverviewRows(tpl, form) ==
    <<<<"Field", "Value">>>> \o
    [j \in 1..Len(tpl.overview) |->
        <<tpl.overview[j].label, CellText(form, tpl.overview[j].key)>>]

CsvRows == <<<<"col">>, <<"val">>>>

\* create_table_from_csv failing after doc.add_table
CreateTableFromCsv_TableFirst(state) ==
    IF state = "ok"
    THEN <<add_table(CsvRows), add_paragraph("Table: Data from CSV file", "Caption")>>
    ELSE <<add_table(<<>>), add_paragraph(CsvErrorPrefix \o state, "Normal")>>

\* create_table_from_csv: the blocks it appends for the file as it is now
CreateTableFromCsv(state) ==
    IF state = "ok"
    THEN <<add_table(CsvRows), add_paragraph("Table: Data from CSV file", "Caption")>>
    ELSE <<add_paragraph(CsvErrorPrefix \o state, "Normal")>>

\* generate_content_with_ai with response.json() outside the try block
generate_content_with_ai_NoCatch(r) ==
    IF r.postRaises THEN <<MdPara(FallbackSentence)>>
    ELSE IF r.status = 200 THEN r.content
    ELSE <<MdPara(FallbackSentence)>>

generate_content_with_ai(r) ==
    IF r.postRaises THEN <<MdPara(FallbackSentence)>>
    ELSE IF r.status = 200
         THEN IF r.jsonOk THEN r.content ELSE <<MdPara(FallbackSentence)>>
         ELSE <<MdPara(FallbackSentence)>>

SectionHeading(idx, name) == add_heading("5." \o ToString(idx + 1) \o " " \o name, 2)

HasType(out, t) == \E j \in 1..Len(out.types) : out.types[j] = t

\* NarrativeBlocks with the use case written under both headings
NarrativeBlocks_UseCaseTwice(use_case, logic) ==
    << add_heading("3. Business Use Case", 1),
       add_paragraph(use_case, "Normal"),
       add_paragraph("", "Normal"),
       add_heading("4. Business Logic", 1),
       add_paragraph(use_case, "Normal"),
       add_paragraph("", "Normal"),
       add_heading("5. Outputs", 1) >>

NarrativeBlocks(use_case, logic) ==
    << add_heading("3. Business Use Case", 1),
       add_paragraph(use_case, "Normal"),
       add_paragraph("", "Normal"),
       add_heading("4. Business Logic", 1),
       add_paragraph(logic, "Normal"),
       add_paragraph("", "Normal"),
       add_heading("5. Outputs", 1) >>

\* ----------------------------------------------------------------- actions
\* __main__: the usage check
Main ==
    /\ pc = "main"
    /\ IF argv_ok
       THEN pc' = "load" /\ UNCHANGED << exitCode, failedAt >>
       ELSE pc' = "exited" /\ exitCode' = 1 /\ failedAt' = "usage"
    /\ UNCHANGED << inputVars, fs, doc, it, i, retval, fileWritten, saves, calls, aiFailed,
                    csvCalls, secAt, csvSeen, envChanges, htmlVars >>

\* lines 112-122: open, json.load, the three json.loads and the key lookups
Load ==
    /\ pc = "load"
    /\ IF dataFile = "ok"
       THEN pc' = "title" /\ UNCHANGED << exitCode, failedAt >>
       ELSE Raise("load")
    /\ UNCHANGED << inputVars, fs, doc, it, i, retval, fileWritten, saves, calls, aiFailed,
                    csvCalls, secAt, csvSeen, envChanges, htmlVars >>

\* lines 125-141: the title, the date line, a spacer
Title ==
    /\ pc = "title"
    /\ doc' = doc \o
           << add_heading("Business Requirements Document: " \o template.templateName, 0),
              add_paragraph("Generated on <date>", "Italic"),
              add_paragraph("", "Normal") >>
    /\ pc' = "overview"
    /\ UNCHANGED << inputVars, fs, it, i, retval, fileWritten, exitCode, saves, logVars,
                    envChanges, htmlVars >>

\* lines 144-168
Overview ==
    /\ pc = "overview"
    /\ doc' = doc \o
           << add_heading("1. Overview", 1),
              add_table(OverviewRows(template, form_data)),
              add_paragraph("", "Normal") >>
    /\ pc' = "tech_csv"
    /\ UNCHANGED << inputVars, fs, it, i, retval, fileWritten, exitCode, saves, logVars,
                    envChanges, htmlVars >>

\* lines 171-175: the heading of section 2, the test of the CSV attachment
TechCsv ==
    /\ pc = "tech_csv"
    /\ IF Attached("csv")
       THEN /\ doc' = doc \o << add_heading("2. Technical Information", 1),
                                add_heading("2.1 Data Table", 2) >>
            /\ pc' = "tech_csv_read"
       ELSE /\ doc' = doc \o << add_heading("2. Technical Information", 1) >>
            /\ pc' = "tech_image"
    /\ UNCHANGED << inputVars, fs, it, i, retval, fileWritten, exitCode, saves, logVars,
                    envChanges, htmlVars >>

\* line 176
TechCsvRead ==
    /\ pc = "tech_csv_read"
    /\ doc' = doc \o CreateTableFromCsv(fs["csv"])
    /\ csvCalls' = Append(csvCalls, [sec |-> 0, at |-> Len(doc), ok |-> fs["csv"] = "ok"])
    /\ pc' = "tech_image"
    /\ UNCHANGED << inputVars, fs, it, i, retval, fileWritten, exitCode, saves, calls,
                    aiFailed, secAt, csvSeen, failedAt, envChanges, htmlVars >>

\* lines 178-185
TechImage ==
    /\ pc = "tech_image"
    /\ doc' = doc \o
           ( IF Attached("image")
             THEN <<add_heading("2.2 System Diagram", 2)>> \o
                  ( IF fs["image"] = "ok"
                    THEN <<add_picture, add_paragraph("Figure: System Diagram", "Normal")>>
                    ELSE <<add_paragraph("Error processing image file: bad", "Normal")>> )
             ELSE <<>> )
    /\ pc' = "tech_doc"
    /\ UNCHANGED << inputVars, fs, it, i, retval, fileWritten, exitCode, saves, logVars,
                    envChanges, htmlVars >>

\* lines 187-191
TechDoc ==
    /\ pc = "tech_doc"
    /\ doc' = doc \o
           ( IF Attached("doc")
             THEN << add_heading("2.3 Reference Document", 2),
                     add_paragraph("Reference document: ref.pdf", "Normal") >>
             ELSE <<>> )
           \o <<add_paragraph("", "Normal")>>
    /\ pc' = "narrative"
    /\ UNCHANGED << inputVars, fs, it, i, retval, fileWritten, exitCode, saves, logVars,
                    envChanges, htmlVars >>

\* lines 194-206
Narrative ==
    /\ pc = "narrative"
    /\ doc' = doc \o NarrativeBlocks(data.businessUseCase, data.businessLogic)
    /\ pc' = "loop"
    /\ UNCHANGED << inputVars, fs, it, i, retval, fileWritten, exitCode, saves, logVars,
                    envChanges, htmlVars >>

\* LoopNext counting the sections in i itself, which the conversion overwrites
LoopNext_SharedIndex ==
    /\ pc = "loop"
    /\ IF it < Len(outputs)
       THEN /\ it' = it + 1
            /\ i' = IF it = 0 THEN 0 ELSE i + 1
            /\ doc' = Append(doc, SectionHeading(i', outputs[it'].name))
            /\ secAt' = Append(secAt, Len(doc) + 1)
            /\ pc' = "sec_content"
       ELSE /\ pc' = "save"
            /\ UNCHANGED << it, i, doc, secAt >>
    /\ UNCHANGED << inputVars, fs, retval, fileWritten, exitCode, saves, calls,
                    aiFailed, csvCalls, csvSeen, failedAt, envChanges, htmlVars >>

\* lines 208-213: enumerate yields the next entry, or the loop ends
LoopNext ==
    /\ pc = "loop"
    /\ IF it < Len(outputs)
       THEN /\ it' = it + 1
            /\ i' = it
            /\ doc' = Append(doc, SectionHeading(i', outputs[it'].name))
            /\ secAt' = Append(secAt, Len(doc) + 1)
            /\ pc' = "sec_content"
       ELSE /\ pc' = "save"
            /\ UNCHANGED << it, i, doc, secAt >>
    /\ UNCHANGED << inputVars, fs, retval, fileWritten, exitCode, saves, calls,
                    aiFailed, csvCalls, csvSeen, failedAt, envChanges, htmlVars >>

\* lines 216-229, 57-61: the request is sent
SecContentCall ==
    /\ pc = "sec_content"
    /\ IF HasType(output, "content")
       THEN /\ calls' = Append(calls, it)
            /\ pc' = "ai_wait"
       ELSE /\ pc' = "sec_table"
            /\ UNCHANGED calls
    /\ UNCHANGED << inputVars, fs, doc, it, i, retval, fileWritten, exitCode, saves,
                    aiFailed, csvCalls, secAt, csvSeen, failedAt, envChanges, htmlVars >>

\* SecContentReturn sending the request again after a failure
SecContentReturn_Retry ==
    /\ pc = "ai_wait"
    /\ \E r \in Responses :
          LET ai_content == generate_content_with_ai(r)
              conv == ConvertBlocks(SplitP(Markdown(ai_content)), i)
          IN  IF NetworkFailure(r) /\ it \notin aiFailed
              THEN /\ aiFailed' = aiFailed \cup {it}
                   /\ pc' = "sec_content"
                   /\ UNCHANGED << doc, i >>
              ELSE /\ doc' = doc \o conv.blocks
                   /\ i' = conv.i
                   /\ aiFailed' = IF NetworkFailure(r) THEN aiFailed \cup {it} ELSE aiFailed
                   /\ pc' = "sec_table"
    /\ UNCHANGED << inputVars, fs, it, retval, fileWritten, exitCode, saves, calls,
                    csvCalls, secAt, csvSeen, failedAt, envChanges, htmlVars >>

\* lines 63-71, 232-255: the answer (or the failure), converted and appended
SecContentReturn ==
    /\ pc = "ai_wait"
    /\ \E r \in Responses :
          LET ai_content == generate_content_with_ai(r)
              conv == ConvertBlocks(SplitP(Markdown(ai_content)), i)
          IN  /\ doc' = doc \o conv.blocks
              /\ i' = conv.i
              /\ aiFailed' = IF NetworkFailure(r) THEN aiFailed \cup {it} ELSE aiFailed
    /\ pc' = "sec_table"
    /\ UNCHANGED << inputVars, fs, it, retval, fileWritten, exitCode, saves, calls,
                    csvCalls, secAt, csvSeen, failedAt, envChanges, htmlVars >>

\* SecTable with "if" in the place of "elif"
SecTable_NoElif ==
    /\ pc = "sec_table"
    /\ IF HasType(output, "table") /\ Attached("csv")
       THEN /\ doc' = doc \o << add_paragraph(TablePlaceholder, "Normal"),
                                add_paragraph(output.name \o " Table Data", "Bold") >>
            /\ csvSeen' = Append(csvSeen, "exists")
            /\ pc' = "sec_table_read"
       ELSE /\ doc' = IF HasType(output, "table")
                      THEN Append(doc, add_paragraph(TablePlaceholder, "Normal"))
                      ELSE doc
            /\ csvSeen' = Append(csvSeen, IF HasType(output, "table") THEN "none" ELSE "unasked")
            /\ pc' = "sec_image"
    /\ UNCHANGED << inputVars, fs, it, i, retval, fileWritten, exitCode, saves, calls,
                    aiFailed, csvCalls, secAt, failedAt, envChanges, htmlVars >>

\* lines 258-263
SecTable ==
    /\ pc = "sec_table"
    /\ IF HasType(output, "table") /\ Attached("csv")
       THEN /\ doc' = Append(doc, add_paragraph(output.name \o " Table Data", "Bold"))
            /\ csvSeen' = Append(csvSeen, "exists")
            /\ pc' = "sec_table_read"
       ELSE /\ doc' = IF HasType(output, "table")
                      THEN Append(doc, add_paragraph(TablePlaceholder, "Normal"))
                      ELSE doc
            /\ csvSeen' = Append(csvSeen, IF HasType(output, "table") THEN "none" ELSE "unasked")
            /\ pc' = "sec_image"
    /\ UNCHANGED << inputVars, fs, it, i, retval, fileWritten, exitCode, saves, calls,
                    aiFailed, csvCalls, secAt, failedAt, envChanges, htmlVars >>

\* line 261
SecTableRead ==
    /\ pc = "sec_table_read"
    /\ doc' = doc \o CreateTableFromCsv(fs["csv"])
    /\ csvCalls' = Append(csvCalls, [sec |-> it, at |-> Len(doc), ok |-> fs["csv"] = "ok"])
    /\ pc' = "sec_image"
    /\ UNCHANGED << inputVars, fs, it, i, retval, fileWritten, exitCode, saves, calls,
                    aiFailed, secAt, csvSeen, failedAt, envChanges, htmlVars >>

\* SecImage with doc.save inside the loop over the sections
SecImage_SaveEach ==
    /\ pc = "sec_image"
    /\ doc' = IF HasType(output, "image")
              THEN Append(doc, add_paragraph(ImagePlaceholder, "Normal"))
              ELSE doc
    /\ saves' = saves + 1
    /\ fileWritten' = TRUE
    /\ pc' = "loop"
    /\ UNCHANGED << inputVars, fs, it, i, retval, exitCode, logVars, envChanges, htmlVars >>

\* lines 266-267
SecImage ==
    /\ pc = "sec_image"
    /\ doc' = IF HasType(output, "image")
              THEN Append(doc, add_paragraph(ImagePlaceholder, "Normal"))
              ELSE doc
    /\ pc' = "loop"
    /\ UNCHANGED << inputVars, fs, it, i, retval, fileWritten, exitCode, saves, logVars,
                    envChanges, htmlVars >>

\* lines 270-271: doc.save writes the file or raises (the path cannot be written)
Save ==
    /\ pc = "save"
    /\ saves' = saves + 1
    /\ \E writable \in BOOLEAN :
          IF writable
          THEN /\ fileWritten' = TRUE
               /\ retval' = TRUE
               /\ pc' = "returned"
               /\ UNCHANGED << exitCode, failedAt >>
          ELSE /\ Raise("save")
               /\ UNCHANGED << fileWritten, retval >>
    /\ UNCHANGED << inputVars, fs, doc, it, i, calls, aiFailed, csvCalls, secAt, csvSeen,
                    envChanges, htmlVars >>

\* MainReturn with the test of the result inverted
MainReturn_Inverted ==
    /\ pc = "returned"
    /\ pc' = "exited"
    /\ exitCode' = IF retval THEN 1 ELSE 0
    /\ UNCHANGED << inputVars, fs, doc, it, i, retval, fileWritten, saves, logVars,
                    envChanges, htmlVars >>

\* lines 281-285
MainReturn ==
    /\ pc = "returned"
    /\ pc' = "exited"
    /\ exitCode' = IF retval THEN 0 ELSE 1
    /\ UNCHANGED << inputVars, fs, doc, it, i, retval, fileWritten, saves, logVars,
                    envChanges, htmlVars >>

\* the environment: the CSV file is replaced or removed while the script runs.
\* Only the state at a read matters, so the change is taken right before one.
EnvCsv ==
    /\ pc \in {"tech_csv", "tech_csv_read", "sec_table", "sec_table_read"}
    /\ "csv" \in files
    /\ envChanges < MaxEnvChanges
    /\ envChanges' = envChanges + 1
    /\ \E s \in {"missing", "ok", "bad"} \ {fs["csv"]} : fs' = [fs EXCEPT !["csv"] = s]
    /\ UNCHANGED << inputVars, pc, doc, it, i, retval, fileWritten, exitCode, saves,
                    logVars, htmlVars >>

\* line 235, on its own: the generated HTML is split into blocks
HtmlSplit ==
    /\ pc = "html_split"
    /\ paragraphs' = SplitP(html)
    /\ pc' = "html_blocks"
    /\ UNCHANGED << inputVars, fs, doc, it, i, retval, fileWritten, exitCode, saves,
                    logVars, envChanges, html, p, added >>

\* lines 236-255, on their own: one pass of the loop over the blocks
HtmlBlock ==
    /\ pc = "html_blocks"
    /\ paragraphs # <<>>
    /\ p' = Head(paragraphs)
    /\ paragraphs' = Tail(paragraphs)
    /\ LET conv == ConvertBlock(p', i)
       IN  /\ added' = conv.blocks
           /\ doc' = doc \o conv.blocks
           /\ i' = conv.i
    /\ UNCHANGED << inputVars, fs, pc, it, retval, fileWritten, exitCode, saves,
                    logVars, envChanges, html >>

Next ==
    \/ Main
    \/ Load
    \/ Title
    \/ Overview
    \/ TechCsv
    \/ TechCsvRead
    \/ TechImage
    \/ TechDoc
    \/ Narrative
    \/ LoopNext
    \/ SecContentCall
    \/ SecContentReturn
    \/ SecTable
    \/ SecTableRead
    \/ SecImage
    \/ Save
    \/ MainReturn
    \/ EnvCsv

Spec == Init /\ [][Next]_vars

\* the Overview table and the attachments, over every template and form data
OptionalValue(k, vs) == {[x \in {} |-> 0]} \cup {[x \in {k} |-> v] : v \in vs}

FormDatas ==
    { a @@ b @@ c :
        a \in OptionalValue("k1", FormValues),
        b \in OptionalValue("k2", {StrValue("y")}),
        c \in OptionalValue("extra", {StrValue("z")}) }

InitOverview ==
    /\ InitCommon
    /\ pc = "main"
    /\ html = <<>>
    /\ argv_ok = TRUE
    /\ dataFile = "ok"
    /\ \E tpl \in Templates, form \in FormDatas, files0 \in SUBSET AttachmentKeys :
           data = Data(tpl, form, <<>>, files0)
    /\ fs \in FileStates(files)

NextOverview ==
    \/ Main
    \/ Load
    \/ Title
    \/ Overview
    \/ TechCsv
    \/ TechCsvRead
    \/ TechImage
    \/ TechDoc
    \/ Narrative
    \/ LoopNext
    \/ Save
    \/ MainReturn
    \/ EnvCsv

SpecOverview == InitOverview /\ [][NextOverview]_vars

\* the conversion of the generated HTML, over every short token sequence
InitHtml ==
    /\ InitCommon
    /\ pc = "html_split"
    /\ argv_ok = TRUE
    /\ dataFile = "ok"
    /\ data = NoData
    /\ fs \in FileStates({})
    /\ html \in HtmlInputs

NextHtml ==
    \/ HtmlSplit
    \/ HtmlBlock

SpecHtml == InitHtml /\ [][NextHtml]_vars

\* -------------------------------------------------------------- properties
NumWhere(seq, Test(_)) == Len(SelectSeq(seq, Test))

IsTable(b) == b.kind = "table"

IsOverviewTable(b) == b.kind = "table" /\ b.rows # <<>> /\ b.rows[1] = <<"Field", "Value">>

IsCsvError(b) ==
    b.kind = "para" /\ b.text \in {CsvErrorPrefix \o "missing", CsvErrorPrefix \o "bad"}

IsPrefix(s, t) == Len(s) <= Len(t) /\ SubSeq(t, 1, Len(s)) = s

OutputsHeading == add_heading("5. Outputs", 1)

\* the script has left output section k behind
SecDone(k) == k < it \/ (k = it /\ pc \in {"loop", "save", "returned", "exited"})

\* the blocks of output section k, its "5.k" heading first
SecBlocks(k) ==
    SubSeq(doc, secAt[k], IF k < Len(secAt) THEN secAt[k + 1] - 1 ELSE Len(doc))

\* the part of a section a block belongs to: 0 the heading, 1 the generated
\* content, 2 the table part, 3 the image part
Part(b) ==
    IF b.kind = "heading" /\ b.level = 2 THEN 0
    ELSE IF b.kind = "para" /\ b.text = ImagePlaceholder THEN 3
    ELSE IF \/ b.kind = "table"
            \/ b.kind = "para" /\ b.style \in {"Bold", "Caption"}
            \/ b.kind = "para" /\ b.text = TablePlaceholder
            \/ IsCsvError(b)
         THEN 2
    ELSE 1

\* the run was not cut short: every section was appended and doc.save was called
\* once; the file is written and the exit status is 0 unless doc.save itself raised
RunCompleted ==
    /\ it = Len(outputs)
    /\ Len(secAt) = Len(outputs)
    /\ saves = 1
    /\ failedAt \in {"", "save"}
    /\ failedAt = "" => fileWritten /\ exitCode = 0

\* ---- C1
ZeroOutputsShape ==
    /\ NumWhere(doc, IsOverviewTable) = 1
    /\ \A j \in 1..Len(doc) :
           IsOverviewTable(doc[j]) => Len(doc[j].rows) = 1 + Len(template.overview)
    /\ LET at == CHOOSE j \in 1..Len(doc) : doc[j] = add_heading("3. Business Use Case", 1)
           prose == SelectSeq(SubSeq(doc, at, Len(doc)),
                              LAMBDA b : b.kind = "para" /\ b.text # "")
       IN  prose = << add_paragraph(data.businessUseCase, "Normal"),
                      add_paragraph(data.businessLogic, "Normal") >>
    /\ NumWhere(doc, LAMBDA b : b = OutputsHeading) = 1
    /\ doc[Len(doc)] = OutputsHeading

\* C1 as stated: with no output sections the saved document holds the Overview
\* table (one row per template field), the two narrative paragraphs, no "5.k"
\* subsection and no other table, whatever attachments are present.
C1_NoOtherTable ==
    (pc = "exited" /\ fileWritten /\ outputs = <<>>) =>
        ZeroOutputsShape /\ NumWhere(doc, IsTable) = 1

\* C1, amended: with no output sections the saved document holds the Overview
\* table (one row per template field), the two narrative paragraphs and nothing
\* after the "5. Outputs" heading; the only other table is the data table of
\* section 2.1, there exactly when the CSV attachment existed and parsed.
C1_ZeroOutputs ==
    (pc = "exited" /\ fileWritten /\ outputs = <<>>) =>
        /\ ZeroOutputsShape
        /\ NumWhere(doc, IsTable) =
               1 + NumWhere(csvCalls, LAMBDA c : c.sec = 0 /\ c.ok)
        /\ Len(csvCalls) <= 1
        /\ \A j \in 1..Len(doc) :
               (IsTable(doc[j]) /\ ~IsOverviewTable(doc[j])) =>
                   doc[j - 1] = add_heading("2.1 Data Table", 2)

C1_Witness ==
    /\ pc = "exited" /\ fileWritten /\ outputs = <<>>
    /\ NumWhere(doc, IsTable) = 2
    /\ Len(template.overview) = 2
    /\ Attached("image") /\ Attached("doc")

\* ---- C2
ExpectedCell(form, key) ==
    IF key \notin DOMAIN form THEN ""
    ELSE IF form[key] = ListValue(<<"a", "b">>) THEN "a, b"
    ELSE IF form[key] = IntValue(7) THEN "7"
    ELSE IF form[key] = StrValue("x") THEN "x"
    ELSE "y"

\* C2: the Overview table has one data row per template field, in template
\* order; a field whose key form data lacks has "" as its value, and a key of
\* form data the template does not name has no row.
C2_OverviewRows ==
    pc \notin {"main", "load", "title", "overview"} =>
        /\ NumWhere(doc, IsOverviewTable) = 1
        /\ IsOverviewTable(doc[5])
        /\ Len(doc[5].rows) = 1 + Len(template.overview)
        /\ \A j \in 1..Len(template.overview) :
               doc[5].rows[j + 1] =
                   << template.overview[j].label,
                      ExpectedCell(form_data, template.overview[j].key) >>

C2_Witness ==
    /\ pc = "tech_csv"
    /\ Len(template.overview) = 2
    /\ template.overview[1].key = "k2" /\ template.overview[2].key = "k1"
    /\ DOMAIN form_data = {"k1", "extra"}
    /\ doc[5].rows = << <<"Field", "Value">>, <<"Second", "">>, <<"First", "a, b">> >>

\* ---- C3
\* the script is past the conversion of the generated content of section k
ContentDone(k) == k < it \/ (k = it /\ pc \notin {"sec_content", "ai_wait"})

\* C3: a failed request (no answer, a status other than 200, an unreadable
\* body) leaves the fallback sentence as the section's only content, and the
\* run goes on through every remaining section to doc.save.
C3_NetworkFailure ==
    /\ \A k \in aiFailed :
           ContentDone(k) =>
               /\ Len(SecBlocks(k)) >= 2
               /\ SecBlocks(k)[2] = add_paragraph(FallbackSentence, "Normal")
               /\ NumWhere(SecBlocks(k), LAMBDA b : Part(b) = 1) = 1
    /\ (aiFailed # {} /\ pc = "exited") => RunCompleted

C3_Witness ==
    /\ pc = "exited" /\ exitCode = 0 /\ fileWritten
    /\ calls = <<1, 2>>
    /\ aiFailed = {1}
    /\ NumWhere(SecBlocks(2), LAMBDA b : Part(b) = 1) > 1

\* ---- C4
\* C4: a call of create_table_from_csv whose CSV cannot be parsed appends an
\* error paragraph and no table, and the run goes on to doc.save.
C4_MalformedCsv ==
    /\ \A n \in 1..Len(csvCalls) :
           ~csvCalls[n].ok =>
               LET at == csvCalls[n].at
               IN  /\ IsCsvError(doc[at + 1])
                   /\ at + 2 <= Len(doc) =>
                          ~IsTable(doc[at + 2]) /\ doc[at + 2].style # "Caption"
    /\ NumWhere(doc, IsTable) =
           NumWhere(doc, IsOverviewTable) + NumWhere(csvCalls, LAMBDA c : c.ok)
    /\ ((\E n \in 1..Len(csvCalls) : ~csvCalls[n].ok) /\ pc = "exited") => RunCompleted

C4_Witness ==
    /\ pc = "exited" /\ exitCode = 0 /\ fileWritten
    /\ Len(csvCalls) = 2
    /\ csvCalls[1].sec = 0 /\ ~csvCalls[1].ok
    /\ csvCalls[2].sec = 1 /\ ~csvCalls[2].ok
    /\ Len(outputs) = 2

\* ---- C5
\* C5: a run ends with status 0 and the file written, or with status 1 and no
\* file written; a usage error and a failed load end it with status 1.
C5_ExitOutcomes ==
    /\ pc # "exited" => exitCode = -1
    /\ pc = "exited" =>
           \/ exitCode = 0 /\ fileWritten /\ failedAt = ""
           \/ exitCode = 1 /\ ~fileWritten /\ failedAt # ""
    /\ (pc = "exited" /\ (~argv_ok \/ dataFile # "ok")) => exitCode = 1 /\ doc = <<>>

C5_Witness ==
    /\ pc = "exited" /\ exitCode = 0 /\ fileWritten
    /\ Len(outputs) = 2 /\ it = 2

\* ---- C6
ContentSectionsCalled ==
    SelectSeq([k \in 1..it |-> k],
              LAMBDA k : HasType(outputs[k], "content") /\ ~(k = it /\ pc = "sec_content"))

\* C6: the requests made are one per started section whose types include
\* "content", in the order of the sections, none twice; while a request is
\* pending nothing of a later section exists.
C6_OneCallPerContent ==
    /\ calls = ContentSectionsCalled
    /\ pc = "ai_wait" =>
           /\ calls[Len(calls)] = it
           /\ Len(secAt) = it
           /\ Len(doc) = secAt[it]

C6_Witness ==
    /\ pc = "exited"
    /\ Len(outputs) = 2
    /\ ~HasType(outputs[1], "content")
    /\ calls = <<2>>
    /\ aiFailed = {2}

\* ---- C7
TopTitles ==
    << "Business Requirements Document: " \o template.templateName, "1. Overview",
       "2. Technical Information", "3. Business Use Case", "4. Business Logic",
       "5. Outputs" >>

TopLevelInOrder ==
    LET tops == SelectSeq(doc, LAMBDA b : b.kind = "heading" /\ b.level <= 1)
    IN  /\ Len(tops) <= Len(TopTitles)
        /\ \A j \in 1..Len(tops) : tops[j].text = TopTitles[j]

SavedAtTheEnd ==
    /\ saves <= 1
    /\ fileWritten => saves = 1
    /\ exitCode = 0 => saves = 1
    /\ saves = 1 =>
           /\ pc \in {"returned", "exited"}
           /\ NumWhere(doc, LAMBDA b : b = OutputsHeading) = 1
           /\ it = Len(outputs)
           /\ Len(secAt) = Len(outputs)
           /\ \A k \in 1..Len(outputs) : SecDone(k)

\* C7: every step leaves the blocks already in the document as they are; the
\* top-level headings come in the fixed order; doc.save is called once, after
\* the last output section, and nothing is appended after it.
C7_AppendOnlySavedOnce ==
    /\ [][/\ IsPrefix(doc, doc')
          /\ saves' # saves => (pc = "save" /\ it = Len(outputs) /\ saves' = saves + 1)
          /\ saves >= 1 => doc' = doc]_vars
    /\ [](TopLevelInOrder /\ SavedAtTheEnd)

C7_Witness ==
    /\ pc = "exited" /\ saves = 1 /\ fileWritten
    /\ Len(secAt) = 2
    /\ Len(csvCalls) = 3

\* ---- C9
TableDone(k) ==
    k < it \/ (k = it /\ pc \in {"sec_image", "loop", "save", "returned", "exited"})

CaptionOf(k) == add_paragraph(outputs[k].name \o " Table Data", "Bold")

CaptionsIn(k) == {j \in 1..Len(SecBlocks(k)) : SecBlocks(k)[j] = CaptionOf(k)}

PlaceholdersIn(k) ==
    NumWhere(SecBlocks(k), LAMBDA b : b = add_paragraph(TablePlaceholder, "Normal"))

\* what C9 says of section k besides what follows the caption
TablePartChosen(k) ==
    /\ csvSeen[k] = "exists" =>
           /\ HasType(outputs[k], "table")
           /\ Cardinality(CaptionsIn(k)) = 1
           /\ PlaceholdersIn(k) = 0
    /\ csvSeen[k] = "none" =>
           /\ HasType(outputs[k], "table")
           /\ CaptionsIn(k) = {}
           /\ PlaceholdersIn(k) = 1
           /\ NumWhere(SecBlocks(k), LAMBDA b : Part(b) = 2) = 1
    /\ csvSeen[k] = "unasked" =>
           /\ ~HasType(outputs[k], "table")
           /\ NumWhere(SecBlocks(k), LAMBDA b : Part(b) = 2) = 0

ImagePartChosen(k) ==
    /\ NumWhere(SecBlocks(k), LAMBDA b : b = add_paragraph(ImagePlaceholder, "Normal")) =
           IF HasType(outputs[k], "image") THEN 1 ELSE 0
    /\ NumWhere(SecBlocks(k), LAMBDA b : b.kind = "picture") = 0

\* C9 as stated: in a section requesting "table", a CSV attachment that exists
\* when the section is processed is rendered as a table under the bold caption;
\* without one the placeholder is written; one of the two, and neither in a
\* section not requesting "table"; "image" gives one placeholder, no picture.
C9_TableUnderCaption ==
    \A k \in 1..Len(secAt) :
        /\ TableDone(k) =>
               /\ TablePartChosen(k)
               /\ \A j \in CaptionsIn(k) : IsTable(SecBlocks(k)[j + 1])
        /\ SecDone(k) => ImagePartChosen(k)

\* C9, amended: as stated, but under the caption stands what
\* create_table_from_csv appends: the table with its caption line, or the error
\* paragraph when the CSV cannot be read at that moment.
C9_TableOrPlaceholder ==
    \A k \in 1..Len(secAt) :
        /\ TableDone(k) =>
               /\ TablePartChosen(k)
               /\ \A j \in CaptionsIn(k) :
                      LET B == SecBlocks(k)
                      IN  \/ /\ IsTable(B[j + 1])
                             /\ B[j + 2].style = "Caption"
                             /\ NumWhere(B, LAMBDA b : Part(b) = 2) = 3
                          \/ /\ IsCsvError(B[j + 1])
                             /\ NumWhere(B, LAMBDA b : Part(b) = 2) = 2
        /\ SecDone(k) => ImagePartChosen(k)

C9_Witness ==
    /\ pc = "exited"
    /\ Len(outputs) = 2
    /\ csvSeen = <<"exists", "none">>
    /\ \E j \in CaptionsIn(1) : IsCsvError(SecBlocks(1)[j + 1])
    /\ HasType(outputs[1], "image")

\* ---- C10
\* C10: the headings of the output sections are "5.1 <name_1>", "5.2 <name_2>",
\* ... one per entry in the order of outputs, whatever the conversion of the
\* generated content left in i; inside a section the heading comes first, then
\* the generated content, then the table part, then the image part.
C10_SectionHeadings ==
    /\ Len(secAt) = it
    /\ \A k \in 1..Len(secAt) :
           /\ doc[secAt[k]] = add_heading("5." \o ToString(k) \o " " \o outputs[k].name, 2)
           /\ k > 1 => secAt[k - 1] < secAt[k]
           /\ doc[secAt[1] - 1] = OutputsHeading
           /\ LET B == SecBlocks(k)
              IN  /\ \A j \in 2..Len(B) : Part(B[j]) # 0
                  /\ \A j \in 1..(Len(B) - 1) : Part(B[j]) <= Part(B[j + 1])
    /\ (pc = "exited" /\ doc # <<>>) => Len(secAt) = Len(outputs)

C10_Witness ==
    /\ pc = "exited"
    /\ Len(outputs) = 2
    /\ outputs[1].types = <<"image", "table", "content">>
    /\ aiFailed = {}
    /\ doc[secAt[2]].text = "5.2 B"
    /\ {Part(SecBlocks(1)[j]) : j \in 1..Len(SecBlocks(1))} = {0, 1, 2, 3}

\* ---- C8
HeadingTagsIn(b) ==
    { k \in 1..MaxTagLevel :
        \E s \in 1..Len(b), e \in 1..Len(b) :
            /\ s < e /\ b[s] = OpenH(k) /\ b[e] = CloseH(k)
            /\ \A j \in (s + 1)..(e - 1) : b[j] # "\n" }

ListItemEnds(b) ==
    { e \in 1..Len(b) :
        /\ b[e] = "</li>"
        /\ \E s \in 1..(e - 1) :
               /\ b[s] = "<li>"
               /\ \A j \in (s + 1)..(e - 1) : b[j] \notin {"</li>", "\n"} }

Smaller(a, b) == IF a <= b THEN a ELSE b

====
